---- MODULE Spec2Model ----
(***************************************************************************)
(* Model of pyblish-mindbender's Maya integration:                         *)
(*   mindbender/maya/pipeline.py  install, uninstall, load, create,        *)
(*                                containerise and the three loaders       *)
(*   pyblish_starter/maya/cache.py  export_alembic                         *)
(* The host scene (maya.cmds) is a function from node names to nodes, the  *)
(* registries of mindbender.api are sequences, and every Python function   *)
(* is an operator from the state it reads to the state it leaves behind    *)
(* plus its outcome (the value returned or the exception raised).          *)
(***************************************************************************)
EXTENDS Integers, Sequences, FiniteSets, TLC

VARIABLES
    families,    \* api.registered_families(): sequence of family records
    data,        \* api.registered_data(): sequence of [key, value]
    scene,       \* the Maya scene: node name -> [type, attrs]
    selection,   \* the active selection, a set of node names
    playback,    \* <<animationStartTime, animationEndTime>> of the host
    created,     \* name -> number of create(name, ...) calls that returned
    call         \* the last public call: its arguments and its outcome

vars == <<families, data, scene, selection, playback, created, call>>

(***************************************************************************)
(* Bounds of the model.                                                    *)
(***************************************************************************)
MaxLoads == 1         \* load is called while the scene holds fewer references
MaxSets == 2          \* create is called while the scene holds fewer object sets
MaxRoots == 2         \* nodes handed to export_alembic

(***************************************************************************)
(* Python values.                                                          *)
(***************************************************************************)
None == "None"

\* The exception classes the functions raise.  UnboundLocalError is a
\* subclass of NameError (Python's exception hierarchy).
IsNameError(e) == e \in {"NameError", "UnboundLocalError"}

\* str.endswith
endswith(s, t) ==
    Len(s) >= Len(t) /\ SubSeq(s, Len(s) - Len(t) + 1, Len(s)) = t

\* seq[i] of Python, i possibly negative; valid iff -len <= i < len.
InRange(seq, i) == -Len(seq) <= i /\ i < Len(seq)
PyIndex(seq, i) == IF i >= 0 THEN seq[i + 1] ELSE seq[Len(seq) + i + 1]

\* str(value).format(name=name, family=family) for the templates that occur:
\* a replacement field names a keyword; an unknown keyword is a KeyError.
Templates == {"{name}", "{family}", "{label}"}
FormatRaises(value) == value \in Templates /\ value \notin {"{name}", "{family}"}
Format(value, name, family) ==
    CASE value = "{name}" -> name
      [] value = "{family}" -> family
      [] OTHER -> value

\* dict((i["key"], i["value"]) for i in items): the last value of a key wins.
Max(S) == CHOOSE x \in S : \A y \in S : y <= x
Min(S) == CHOOSE x \in S : \A y \in S : x <= y
ToDict(items) ==
    [k \in {items[i].key : i \in DOMAIN items} |->
        items[Max({i \in DOMAIN items : items[i].key = k})].value]

(***************************************************************************)
(* The host scene.                                                         *)
(***************************************************************************)
NoAttrs == <<>>
Node(type) == [type |-> type, attrs |-> NoAttrs]

\* cmds.objExists
objExists(sc, node) == node \in DOMAIN sc

\* Maya names a new node as asked, or appends the first free number when the
\* name is taken.
\* The numbers a name may be given: the nodes take at most one each.
Numbers(sc) == 1 .. Cardinality(DOMAIN sc) + 1
FirstFree(sc, taken) == Min(Numbers(sc) \ taken)
NewName(sc, name) ==
    IF objExists(sc, name)
    THEN name \o ToString(FirstFree(sc,
            {k \in Numbers(sc) : objExists(sc, name \o ToString(k))}))
    ELSE name

AddNode(sc, name, node) ==
    [n \in DOMAIN sc \cup {name} |-> IF n = name THEN node ELSE sc[n]]

\* cmds.addAttr + cmds.setAttr of string attributes.
SetAttrs(sc, node, values) ==
    [sc EXCEPT ![node].attrs =
        [k \in DOMAIN @ \cup DOMAIN values |->
            IF k \in DOMAIN values THEN values[k] ELSE @[k]]]

\* lib.imprint(node, data): one attribute per key.
imprint(sc, node, values) == SetAttrs(sc, node, values)

NodesOfType(sc, type) == {n \in DOMAIN sc : sc[n].type = type}

\* A namespace exists once a file was referenced into it; the reference node
\* of namespace ns is ns \o "RN".  cmds.file takes the namespace asked for,
\* or the first free numbered one when it is taken.
NamespaceExists(sc, ns) == objExists(sc, ns \o "RN")
NewNamespace(sc, ns) ==
    IF NamespaceExists(sc, ns)
    THEN ns \o ToString(FirstFree(sc,
            {k \in Numbers(sc) : NamespaceExists(sc, ns \o ToString(k))}))
    ELSE ns

\* lib.unique_name(name): the first numbered variant of name that names
\* neither a node nor a namespace of the scene.
unique_name(sc, name) ==
    name \o ToString(FirstFree(sc,
        {k \in Numbers(sc) :
            objExists(sc, name \o ToString(k))
                \/ NamespaceExists(sc, name \o ToString(k) \o "_")}))

\* cmds.file(fname, namespace=ns, reference=True, returnNewNodes=True): the
\* nodes of the file appear under the namespace, in file order, with a
\* reference node.  content is the file: a sequence of [name, type, members],
\* members being the nodes an object set of the file holds.
AddAll(sc, ns, content) ==
    LET new == {ns \o ":" \o content[i].name : i \in DOMAIN content}
        TypeOf(n) ==
            content[Max({i \in DOMAIN content : ns \o ":" \o content[i].name = n})].type
    IN  [n \in DOMAIN sc \cup new |->
            IF n \in new THEN Node(TypeOf(n)) ELSE sc[n]]
file_reference(sc, namespace, content) ==
    LET ns == NewNamespace(sc, namespace)
    IN  [scene |-> AddNode(AddAll(sc, ns, content), ns \o "RN",
                           Node("reference")),
         nodes |-> [i \in 1..Len(content) |-> ns \o ":" \o content[i].name],
         reference |-> ns \o "RN"]

(***************************************************************************)
(* create(name, family)                                                    *)
(***************************************************************************)
\* The loop of lines 209-211 leaves `item` at the matching entry, at the
\* last entry when none matches, and unbound when the registry is empty.
\* The entries are dictionaries, so `assert item is not None` (line 213)
\* never fails.
LoopItem(fams, family) ==
    LET matching == {i \in DOMAIN fams : fams[i].name = family}
    IN  IF matching # {} THEN Min(matching) ELSE Len(fams)

\* The tally of the create calls that returned.
NoneCreated == <<>>
Count(cr, name) ==
    [n \in DOMAIN cr \cup {name} |->
        IF n = name THEN (IF n \in DOMAIN cr THEN cr[n] + 1 ELSE 1) ELSE cr[n]]

Raise(sc, sel, error, message) ==
    [scene |-> sc, selection |-> sel, outcome |-> error,
     message |-> message, ret |-> None]

\* line 222: cmds.objExists(instance)
InstanceExistsSkipped(sc, name) == FALSE
InstanceExists(sc, name) == objExists(sc, name \o "_SET")

\* lines 225-240: cmds.sets makes the set; the templates are resolved, and a
\* KeyError leaves the set behind without data; lib.imprint; cmds.select.
MakeInstance(sc, sel, name, family, d, instance) ==
    IF \E k \in DOMAIN d : FormatRaises(d[k])
    THEN Raise(AddNode(sc, instance, Node("objectSet")), sel, "KeyError",
               "Invalid dynamic property")
    ELSE [scene |-> imprint(AddNode(sc, instance, Node("objectSet")), instance,
                            [k \in DOMAIN d |-> Format(d[k], name, family)]),
          selection |-> {instance},
          outcome |-> "ok",
          message |-> "",
          ret |-> instance]

create(fams, regdata, sc, sel, name, family) ==
    IF fams = <<>>
    THEN Raise(sc, sel, "UnboundLocalError",
               "local variable 'item' referenced before assignment")
    ELSE IF InstanceExists(sc, name)
    THEN Raise(sc, sel, "NameError",
               "\"" \o name \o "_SET" \o "\" already exists.")
    ELSE MakeInstance(sc, sel, name, family,
                      ToDict(regdata \o fams[LoopItem(fams, family)].data),
                      NewName(sc, name \o "_SET"))

(***************************************************************************)
(* containerise(name, nodes, version)                                      *)
(***************************************************************************)
\* lines 262-270: the text values of the metadata; version["version"] is a
\* number and is kept apart.  version.get("comment", "") is "" for a
\* version without comment.
ContainerDataFromPath(version) ==
    [id |-> "pyblish.mindbender.container",
     author |-> version.author,
     loader |-> "mindbender.maya.pipeline",
     time |-> version.time,
     source |-> version.path,
     comment |-> version.comment]
ContainerData(version) ==
    [id |-> "pyblish.mindbender.container",
     author |-> version.author,
     loader |-> "mindbender.maya.pipeline",
     time |-> version.time,
     source |-> version.source,
     comment |-> version.comment]

\* line 274: `if not value: continue` skips "" and 0.
Truthy(text) == text # ""
TruthyNumber(n) == n # 0

\* lines 272-278
Tag(sc, container, text, number) ==
    SetAttrs(sc, container,
        [k \in {j \in DOMAIN text : Truthy(text[j])}
                 \cup (IF TruthyNumber(number) THEN {"version"} ELSE {}) |->
            IF k = "version" THEN number ELSE text[k]])

\* line 260: cmds.group makes the container and leaves it selected.
Group(sc, container, version) ==
    [scene |-> Tag(AddNode(sc, container, Node("transform")), container,
                   ContainerData(version), version.version),
     selection |-> {container},
     container |-> container]

containerise(sc, name, nodes, version) == Group(sc, NewName(sc, name), version)

(***************************************************************************)
(* The loaders.  st is [scene, selection, created]; a loader returns the   *)
(* state it leaves, its outcome, the reference node it returns and the     *)
(* container it made.                                                      *)
(***************************************************************************)
Returned(sc, sel, cr, ref, container) ==
    [scene |-> sc, selection |-> sel, created |-> cr, outcome |-> "ok",
     message |-> "", ret |-> ref, container |-> container]
Raised(sc, sel, cr, error, message, container) ==
    [scene |-> sc, selection |-> sel, created |-> cr, outcome |-> error,
     message |-> message, ret |-> None, container |-> container]

\* lines 297-311, shared by the three loaders: reference the file under the
\* namespace name_, containerise the new nodes under name, query the
\* reference node.
Referenced(c, reference) ==
    [scene |-> c.scene, selection |-> c.selection,
     container |-> c.container, reference |-> reference]
Containerised(f, name, version) ==
    Referenced(containerise(f.scene, name, f.nodes, version), f.reference)
Reference(st, name, version, content) ==
    Containerised(file_reference(st.scene, name \o "_", content), name, version)

Loaded(st, r) ==
    Returned(r.scene, r.selection, st.created, r.reference, r.container)

_loader_generic(st, fams, regdata, asset, subset, version, content) ==
    Loaded(st, Reference(st, unique_name(st.scene, asset.name), version,
                         content))

\* line 349: the nodes of the namespace whose name ends with out_SET.
Outputs(sc, ns) ==
    {n \in DOMAIN sc : endswith(n, "out_SET")
                       /\ Len(n) > Len(ns) /\ SubSeq(n, 1, Len(ns)) = ns}

\* The members of an object set that came with the file.
MembersOf(content, ns, output) ==
    UNION {{ns \o m : m \in content[i].members} :
              i \in {j \in DOMAIN content : ns \o content[j].name = output}}

\* line 358 and the return of line 360
RigCreated(st, name, r, c) ==
    IF c.outcome = "ok"
    THEN Returned(c.scene, c.selection, Count(st.created, name),
                  r.reference, r.container)
    ELSE Raised(c.scene, c.selection, st.created, c.outcome, c.message,
                r.container)

\* lines 343-358: cmds.select(output, noExpand=False) selects the members
\* of the output set before create is called.
RigInstance(st, fams, regdata, name, r, content) ==
    IF Outputs(r.scene, name \o "_:") = {}
    THEN Raised(r.scene, r.selection, st.created, "AssertionError",
                "No output in rig, this is a bug.", r.container)
    ELSE RigCreated(st, name, r,
            create(fams, regdata, r.scene,
                   MembersOf(content, name \o "_:",
                             CHOOSE n \in Outputs(r.scene, name \o "_:") : TRUE),
                   name, "mindbender.animation"))

_loader_rig(st, fams, regdata, asset, subset, version, content) ==
    RigInstance(st, fams, regdata, unique_name(st.scene, asset.name),
                Reference(st, unique_name(st.scene, asset.name), version,
                          content),
                content)

_loader_animation(st, fams, regdata, asset, subset, version, content) ==
    Loaded(st, Reference(st, subset.name, version, content))

(***************************************************************************)
(* load(asset, subset, version=-1, representation=None)                    *)
(***************************************************************************)
\* line 183: family["loader"] or _loader_generic
LoaderOf(family) ==
    IF family.loader = None THEN "_loader_generic" ELSE family.loader

Invoke(loader, st, fams, regdata, asset, subset, version, content) ==
    CASE loader = "_loader_rig" ->
            _loader_rig(st, fams, regdata, asset, subset, version, content)
      [] loader = "_loader_animation" ->
            _loader_animation(st, fams, regdata, asset, subset, version, content)
      [] OTHER ->
            _loader_generic(st, fams, regdata, asset, subset, version, content)

\* line 182: family["name"] in version["families"]
MatchesAny(family, version) == TRUE
Matches(family, version) == family.name \in version.families

\* The call after one more loader ran: its value is dropped (line 184), its
\* exception ends load.
Record(st, i, family, loader, r) ==
    [scene |-> r.scene, selection |-> r.selection, created |-> r.created,
     outcome |-> r.outcome, message |-> r.message,
     invoked |-> Append(st.invoked,
                    [index |-> i, family |-> family, loader |-> loader,
                     outcome |-> r.outcome, ret |-> r.ret,
                     container |-> r.container])]

\* lines 182-184 for entry i of the registry.
Step(st, i, fams, regdata, asset, subset, version, content) ==
    IF st.outcome # "ok" \/ ~Matches(fams[i], version) THEN st
    ELSE Record(st, i, fams[i].name, LoaderOf(fams[i]),
                Invoke(LoaderOf(fams[i]), st, fams, regdata, asset, subset,
                       version, content))

Started(st, error, message) ==
    [scene |-> st.scene, selection |-> st.selection, created |-> st.created,
     outcome |-> error, message |-> message, invoked |-> <<>>]

\* lines 181-184: the loop over the registry, in registry order.
Dispatch(st, fams, regdata, asset, subset, version, content) ==
    LET after[i \in 0 .. Len(fams)] ==
            IF i = 0 THEN Started(st, "ok", "")
            ELSE Step(after[i - 1], i, fams, regdata, asset, subset, version,
                      content)
    IN  after[Len(fams)]

\* api.any_representation(version): some representation of the version; the
\* ValueError of load's docstring when the version has none.
HasRepresentation(version) == version.representations # <<>>

SubsetSchema == "pyblish-mindbender:subset-1.0"

load(st, fams, regdata, asset, subset, version, representation, content) ==
    IF subset.schema # SubsetSchema
    THEN Started(st, "AssertionError", "")
    ELSE IF ~InRange(subset.versions, version)
    THEN Started(st, "IndexError", "not found.")
    ELSE IF representation = None
            /\ ~HasRepresentation(PyIndex(subset.versions, version))
    THEN Started(st, "ValueError", "no supported representation")
    ELSE Dispatch(st, fams, regdata, asset, subset,
                  PyIndex(subset.versions, version), content)

\* load has no return statement: its value is None whatever the loaders
\* returned.
LoadReturn(result) == None

(***************************************************************************)
(* export_alembic(nodes, file, frame_range=None, uv_write=True)            *)
(***************************************************************************)
\* frame_range is None or a pair; None is no tuple, written <<>> here.
NoRange == <<>>

\* line 19: "%s %s" % frame_range takes two values from a tuple; with None
\* the operator has one argument for two conversions and raises TypeError.
RangeRaises(frame_range) == Len(frame_range) # 2
RangeText(frame_range) ==
    ToString(frame_range[1]) \o " " \o ToString(frame_range[2])

\* lines 17-23
Options(nodes, file, frame_range, uv_write) ==
    <<[key |-> "file", value |-> file],
      [key |-> "frameRange", value |-> RangeText(frame_range)]>>
    \o [i \in DOMAIN nodes |-> [key |-> "root", value |-> nodes[i]]]
    \o (IF uv_write THEN <<[key |-> "uvWrite", value |-> ""]>> ELSE <<>>)

\* lines 32-34: "-{0} {1}".format(key, value)
MelArgs(options) ==
    [i \in DOMAIN options |-> "-" \o options[i].key \o " " \o options[i].value]

\* line 36: " ".join(mel_args)
Join(args) ==
    LET joined[i \in 0 .. Len(args)] ==
            IF i = 0 THEN ""
            ELSE IF i = 1 THEN args[1]
            ELSE joined[i - 1] \o " " \o args[i]
    IN  joined[Len(args)]

\* lines 36-39: the command handed to mel.eval
Command(mel_args) ==
    [outcome |-> "ok", mel_args |-> mel_args,
     mel_cmd |-> "AbcExport -j \"" \o Join(mel_args) \o "\""]

\* Line 19 runs before the default of lines 25-29 is filled in, and the
\* options are not rebuilt after it.
export_alembic(nodes, file, frame_range, uv_write, pb) ==
    IF RangeRaises(frame_range)
    THEN [outcome |-> "TypeError", mel_args |-> <<>>, mel_cmd |-> ""]
    ELSE Command(MelArgs(Options(nodes, file, frame_range, uv_write)))

(***************************************************************************)
(* install() and uninstall(), and the registries of mindbender.api.        *)
(***************************************************************************)
Family(name, loader, famdata) ==
    [name |-> name, loader |-> loader, data |-> famdata]

\* api.register_family / api.register_data append to their registry;
\* api.deregister_family / api.deregister_data drop the entries of a name.
register_family(fams, family) == Append(fams, family)
register_data(regdata, key, value) ==
    Append(regdata, [key |-> key, value |-> value])
deregister_family(fams, name) == SelectSeq(fams, LAMBDA f : f.name # name)
deregister_data(regdata, key) == SelectSeq(regdata, LAMBDA d : d.key # key)

Registered(fams) == {fams[i].name : i \in DOMAIN fams}

\* lines 37-40
InstallData(regdata) ==
    register_data(register_data(register_data(register_data(regdata,
        "id", "pyblish.mindbender.instance"),
        "name", "{name}"),
        "subset", "{name}"),
        "family", "{family}")

\* lines 48-76; the frame numbers are read from the host when install runs
\* and create formats them with str().
InstallFamilies(fams, pb) ==
    register_family(register_family(register_family(fams,
        Family("mindbender.model", "_loader_generic", <<>>)),
        Family("mindbender.rig", "_loader_rig", <<>>)),
        Family("mindbender.animation", "_loader_animation",
               <<[key |-> "startFrame", value |-> ToString(pb[1])],
                 [key |-> "endFrame", value |-> ToString(pb[2])]>>))

\* lines 86-93
UninstallData(regdata) ==
    deregister_data(deregister_data(deregister_data(deregister_data(regdata,
        "id"), "name"), "subset"), "family")
UninstallFamilies(fams) ==
    deregister_family(deregister_family(deregister_family(fams,
        "mindbender.model"), "mindbender.rig"), "mindbender.animation")

(***************************************************************************)
(* The inputs of the calls.                                                *)
(***************************************************************************)
\* Families a studio registers besides the installed ones: one without a
\* loader, whose data holds a dynamic property create cannot resolve.
StudioFamilies ==
    {Family("studio.lookdev", None, <<[key |-> "label", value |-> "{label}"]>>)}

Names == {"shot", "hero1"}
FamilyArgs == {"mindbender.animation", "bogus"}

Playbacks == {<<1, 24>>, <<101, 148>>}

Assets == {[name |-> "hero"]}

Version(n, author, source, fams, reprs) ==
    [version |-> n, author |-> author, source |-> source,
     time |-> "20161201T101500Z", comment |-> "", path |-> "{root}/v",
     families |-> fams, representations |-> reprs]

Subsets ==
    {[schema |-> SubsetSchema, name |-> "shot_SET",
      versions |-> <<Version(0, "marcus", "",
                             {"mindbender.model", "studio.lookdev"},
                             <<".ma">>),
                     Version(1, "", "scene_v1.ma",
                             {"mindbender.rig", "mindbender.animation"},
                             <<>>)>>],
     [schema |-> "pyblish-mindbender:asset-1.0", name |-> "shot_SET",
      versions |-> <<>>]}

VersionArgs == {-3, -1, 0, 2}
RepresentationArgs == {None, ".ma"}

\* The referenced file: a model, or a rig with its output set.
Contents ==
    {<<[name |-> "geo", type |-> "transform", members |-> {}]>>,
     <<[name |-> "rig", type |-> "transform", members |-> {}],
       [name |-> "out_SET", type |-> "objectSet", members |-> {"rig"}]>>}

\* The arguments of export_alembic.
RootArgs == {"|hero1", "|shot_SET"}
NodeLists == UNION {[1 .. n -> RootArgs] : n \in 0 .. MaxRoots}
FileArgs == {"/publish/hero.abc", "/publish/shot.abc"}
FrameRanges == {NoRange, <<1, 24>>, <<10, 10>>, <<1001, 1100>>}

(***************************************************************************)
(* The state machine.                                                      *)
(***************************************************************************)
Init ==
    /\ families = <<>>
    /\ data = <<>>
    /\ scene = <<>>
    /\ selection = {}
    /\ playback \in Playbacks
    /\ created = NoneCreated
    /\ call = [op |-> "none"]

\* install() runs once until uninstall(); its menu, root and file formats
\* are not read by load or create.
Installed == "mindbender.model" \in Registered(families)

Install ==
    /\ ~Installed
    /\ data' = InstallData(data)
    /\ families' = InstallFamilies(families, playback)
    /\ call' = [op |-> "install"]
    /\ UNCHANGED <<scene, selection, playback, created>>

Uninstall ==
    /\ data' = UninstallData(data)
    /\ families' = UninstallFamilies(families)
    /\ call' = [op |-> "uninstall"]
    /\ UNCHANGED <<scene, selection, playback, created>>

RegisterFamily ==
    \E f \in StudioFamilies :
        /\ f.name \notin Registered(families)
        /\ families' = register_family(families, f)
        /\ call' = [op |-> "register_family"]
        /\ UNCHANGED <<data, scene, selection, playback, created>>

\* The state a create call leaves, and the record of the call.
CreateCalled(r, name, family) ==
    /\ scene' = r.scene
    /\ selection' = r.selection
    /\ created' = IF r.outcome = "ok" THEN Count(created, name) ELSE created
    /\ call' = [op |-> "create", name |-> name, family |-> family,
                outcome |-> r.outcome, message |-> r.message, ret |-> r.ret]
    /\ UNCHANGED <<families, data, playback>>

Create ==
    \E name \in Names, family \in FamilyArgs :
        /\ Cardinality(NodesOfType(scene, "objectSet")) < MaxSets
        /\ CreateCalled(create(families, data, scene, selection, name, family),
                   name, family)

\* The state a load call leaves, and the record of the call.
LoadCalled(r, asset, subset, version, representation) ==
    /\ scene' = r.scene
    /\ selection' = r.selection
    /\ created' = r.created
    /\ call' = [op |-> "load", asset |-> asset, subset |-> subset,
                version |-> version, representation |-> representation,
                outcome |-> r.outcome, message |-> r.message,
                ret |-> LoadReturn(r), invoked |-> r.invoked]
    /\ UNCHANGED <<families, data, playback>>

Load ==
    \E asset \in Assets, subset \in Subsets, version \in VersionArgs,
       representation \in RepresentationArgs, content \in Contents :
        /\ Cardinality(NodesOfType(scene, "reference")) < MaxLoads
        /\ LoadCalled(load([scene |-> scene, selection |-> selection,
                          created |-> created],
                         families, data, asset, subset, version,
                         representation, content),
                    asset, subset, version, representation)

Next == Install \/ Uninstall \/ RegisterFamily \/ Create \/ Load

Spec == Init /\ [][Next]_vars

(***************************************************************************)
(* export_alembic reads the host's playback range and touches nothing of   *)
(* the pipeline: it is explored over its arguments, from the first scene.  *)
(***************************************************************************)
ExportCalled(r, nodes, file, frame_range, uv_write) ==
    /\ call' = [op |-> "export_alembic", nodes |-> nodes, file |-> file,
                frame_range |-> frame_range, uv_write |-> uv_write,
                outcome |-> r.outcome, mel_args |-> r.mel_args,
                mel_cmd |-> r.mel_cmd]
    /\ UNCHANGED <<families, data, scene, selection, playback, created>>

ExportAlembic ==
    \E nodes \in NodeLists, file \in FileArgs, frame_range \in FrameRanges,
       uv_write \in BOOLEAN :
        ExportCalled(export_alembic(nodes, file, frame_range, uv_write,
                                    playback),
                     nodes, file, frame_range, uv_write)

NextCache == ExportAlembic

SpecCache == Init /\ [][NextCache]_vars

(***************************************************************************)
(* Properties.  A call is read from `call`, the record the action leaves;  *)
(* what it is expected to do is computed here from the arguments and the   *)
(* registry, not from the operators above.                                 *)
(***************************************************************************)
IsLoad == call.op = "load"
IsCreate == call.op = "create"
IsExport == call.op = "export_alembic"

\* The version a load call resolved (line 171).
Resolved == PyIndex(call.subset.versions, call.version)
VersionFound ==
    -Len(call.subset.versions) <= call.version
        /\ call.version < Len(call.subset.versions)

\* The entries of the registry whose name the resolved version lists, in
\* registry order.
Listed == {i \in DOMAIN families : families[i].name \in Resolved.families}
ListedBefore(i) == Cardinality({j \in Listed : j < i})

\* C1: load returns the reference node of a loader it invoked: a call that
\* completes and in which a registered family matched returns the value one
\* of its loaders returned, never None.
C1_LoadReturnsReference ==
    (IsLoad /\ call.outcome = "ok" /\ call.invoked # <<>>) =>
        /\ call.ret # None
        /\ \E i \in DOMAIN call.invoked : call.ret = call.invoked[i].ret

\* C2: create with a family that no registry entry names fails with
\* "<family> is not a valid family", makes no set and imprints no data,
\* whatever the registry holds.
C2_UnknownFamilyRejected ==
    [][(call'.op = "create" /\ call'.family \notin Registered(families)) =>
          /\ call'.outcome = "AssertionError"
          /\ call'.message = call'.family \o " is not a valid family"
          /\ scene' = scene]_vars

\* C3: create raises NameError when a node named <name>_SET exists, and then
\* leaves the scene and the selection as they were; no name has more than
\* one create call that returned.
C3_ExistingInstanceRaises ==
    /\ [][(call'.op = "create" /\ (call'.name \o "_SET") \in DOMAIN scene) =>
            /\ IsNameError(call'.outcome)
            /\ scene' = scene
            /\ selection' = selection
            /\ created' = created]_vars
    /\ [](\A n \in DOMAIN created : created[n] <= 1)

\* C3 witness: a create call met its set in the scene after another create
\* call had returned.
C3_Witness ==
    /\ IsCreate
    /\ call.outcome = "NameError"
    /\ (call.name \o "_SET") \in DOMAIN scene
    /\ \E n \in DOMAIN created : created[n] = 1

\* C4: export_alembic without frame_range exports the host's animation
\* range and does not fail; with frame_range (s, e) the job holds
\* "-frameRange s e".
ExpectedRange ==
    IF call.frame_range = NoRange
    THEN ToString(playback[1]) \o " " \o ToString(playback[2])
    ELSE ToString(call.frame_range[1]) \o " " \o ToString(call.frame_range[2])
C4_FrameRangeDefaults ==
    IsExport =>
        /\ call.outcome = "ok"
        /\ \E i \in DOMAIN call.mel_args :
              call.mel_args[i] = "-frameRange " \o ExpectedRange

\* The containers a load call made, with the attributes they carry now.
Containers == {call.invoked[i].container : i \in DOMAIN call.invoked}
Carries(c, key, value) ==
    key \in DOMAIN scene[c].attrs /\ scene[c].attrs[key] = value

\* C5 as stated: every container carries id, author, version and source
\* with the values of the version record, for every version record.
C5_EveryContainerTagged ==
    IsLoad => \A c \in Containers :
        /\ Carries(c, "id", "pyblish.mindbender.container")
        /\ Carries(c, "author", Resolved.author)
        /\ Carries(c, "version", Resolved.version)
        /\ Carries(c, "source", Resolved.source)

\* C5 amended: every container carries id, and each of author, version and
\* source with the value of the version record when that value is not empty
\* ("" or 0); a field whose value is empty gets no attribute.
C5_NonEmptyFieldsTagged ==
    IsLoad => \A c \in Containers :
        /\ Carries(c, "id", "pyblish.mindbender.container")
        /\ IF Resolved.author # "" THEN Carries(c, "author", Resolved.author)
           ELSE "author" \notin DOMAIN scene[c].attrs
        /\ IF Resolved.version # 0 THEN Carries(c, "version", Resolved.version)
           ELSE "version" \notin DOMAIN scene[c].attrs
        /\ IF Resolved.source # "" THEN Carries(c, "source", Resolved.source)
           ELSE "source" \notin DOMAIN scene[c].attrs

\* C5 witness: a container was made from a version record with an empty
\* field and a non-empty one.
C5_Witness ==
    /\ IsLoad
    /\ Containers # {}
    /\ Resolved.author = ""
    /\ Resolved.source # ""

\* The loader a registry entry is loaded with: its own, the generic one
\* when it has none.
ExpectedLoader(i) ==
    IF families[i].loader = "None" THEN "_loader_generic"
    ELSE families[i].loader

\* The j-th loader call of a load is for the j-th listed entry of the
\* registry, with that entry's loader.
InRegistryOrder ==
    \A j \in DOMAIN call.invoked :
        /\ call.invoked[j].index \in Listed
        /\ ListedBefore(call.invoked[j].index) = j - 1
        /\ call.invoked[j].loader = ExpectedLoader(call.invoked[j].index)

\* A load call whose subset and representation are accepted.
Dispatching ==
    /\ IsLoad
    /\ call.subset.schema = "pyblish-mindbender:subset-1.0"
    /\ VersionFound
    /\ (call.representation # "None" \/ Resolved.representations # <<>>)

OutOfRange ==
    /\ IsLoad
    /\ call.subset.schema = "pyblish-mindbender:subset-1.0"
    /\ ~VersionFound

\* C6 as stated: once the version is resolved, the loader of every listed
\* entry of the registry is invoked exactly once, in registry order, the
\* generic loader standing in for an empty one, and no other; an index out
\* of range raises IndexError before any loader is invoked.
C6_EveryListedFamilyLoaded ==
    /\ OutOfRange => (call.outcome = "IndexError" /\ call.invoked = <<>>)
    /\ Dispatching =>
          (InRegistryOrder /\ Len(call.invoked) = Cardinality(Listed))

\* C6 amended: the loaders are invoked in registry order for the listed
\* entries, each once and no other, up to the first loader that raises;
\* load ends with that exception and the listed entries after it are not
\* loaded.  Every listed entry is loaded when no loader raises.
C6_ListedFamiliesLoadedUntilRaise ==
    /\ OutOfRange => (call.outcome = "IndexError" /\ call.invoked = <<>>)
    /\ Dispatching =>
          /\ InRegistryOrder
          /\ \A j \in DOMAIN call.invoked :
                j < Len(call.invoked) => call.invoked[j].outcome = "ok"
          /\ IF call.outcome = "ok"
             THEN /\ Len(call.invoked) = Cardinality(Listed)
                  /\ \A j \in DOMAIN call.invoked :
                        call.invoked[j].outcome = "ok"
             ELSE /\ call.invoked # <<>>
                  /\ call.invoked[Len(call.invoked)].outcome = call.outcome

\* C6 witness: a loader raised while a listed entry was still to be loaded.
C6_Witness ==
    /\ Dispatching
    /\ call.outcome # "ok"
    /\ call.invoked # <<>>
    /\ Len(call.invoked) < Cardinality(Listed)

====
